---- MODULE Spec2Model ----
(***************************************************************************)
(* Verification model of the posers repository:                            *)
(*   - pipe/fs.py      : FS / Branch tree, serialization, naming           *)
(*                       conventions (merge, valid)                        *)
(*   - poser.py        : Poser / PoserSet pose stacks                      *)
(*   - ma_rig/spaceswitch.py : SpaceSwitch.add dispatch                    *)
(* Each subsystem has its own specification (SpecFS, SpecNC, SpecPoser,    *)
(* SpecSS); the variables of the other subsystems stay at their idle value.*)
(***************************************************************************)
EXTENDS Integers, Sequences, FiniteSets, TLC

VARIABLES fs, fsres, nc, ncres, pz, pzres, ss, ssres

vars == <<fs, fsres, nc, ncres, pz, pzres, ss, ssres>>

Idle == "idle"

(***************************************************************************)
(* Generic helpers                                                         *)
(***************************************************************************)
Range(s) == {s[i] : i \in 1..Len(s)}

RECURSIVE IndexOf(_, _, _)
\* first position of x in s at or after i, 0 when absent (list.index)
IndexOf(s, x, i) ==
    IF i > Len(s) THEN 0
    ELSE IF s[i] = x THEN i
    ELSE IndexOf(s, x, i + 1)

RemoveAt(s, i) == [j \in 1..(Len(s) - 1) |-> IF j < i THEN s[j] ELSE s[j + 1]]

\* all sequences over S of length at most n
RECURSIVE SeqsUpTo(_, _)
SeqsUpTo(S, n) ==
    IF n = 0 THEN {<<>>}
    ELSE LET shorter == SeqsUpTo(S, n - 1)
         IN  shorter \cup {Append(s, x) : s \in shorter, x \in S}

(***************************************************************************)
(*                      pipe/fs.py : FS and Branch                         *)
(***************************************************************************)
\* number of operations applied to the deserialized FS
MaxOps == 3

NoneRef == [kind |-> "none", id |-> 0]
FSRef == [kind |-> "fs", id |-> 0]
BranchRef(b) == [kind |-> "branch", id |-> b]

\* a config dictionary: type, id, the state of the 'children' key ("absent",
\* "false", "null" or "list") and, for a list, its items
Config(t, i, ck, kids) == [type |-> t, id |-> i, ck |-> ck, kids |-> kids]

\* configs handed to Branch(config, parent): a folder, a file and a file
\* that accepts children
FlatConfigs ==
    { Config("folder", "a", "absent", <<>>),
      Config("file", "b", "absent", <<>>),
      Config("file", "a", "list", <<>>) }

\* FS.__init__ : no branches
EmptyFS == [n |-> 0, par |-> <<>>, kids |-> <<>>, can |-> <<>>, cfg |-> <<>>,
            root |-> <<>>]

\* parent.children : the list held by an FS or a Branch
ChildrenOf(s, ref) == IF ref.kind = "fs" THEN s.root ELSE s.kids[ref.id]

\* a parent whose children attribute is a list (an FS always is)
HoldsChildren(s, ref) == ref.kind = "fs" \/ (ref.kind = "branch" /\ s.can[ref.id])

SetChildren(s, ref, l) ==
    IF ref.kind = "fs" THEN [s EXCEPT !.root = l]
    ELSE [s EXCEPT !.kids[ref.id] = l]

\* mutation: insert(0, self) in place of append(self)
PrependChild(l, b) == <<b>> \o l

\* parent.children.append(self)
AppendChild(l, b) == Append(l, b)

\* Branch.set_parent : returns the store after the call and the exception
SetParentOp(s, b, p) ==
    LET old == s.par[b]
        oldl == IF old.kind = "none" THEN <<>> ELSE
                IF HoldsChildren(s, old) THEN ChildrenOf(s, old) ELSE <<>>
        at == IndexOf(oldl, b, 1)
    IN  IF old.kind /= "none" /\ ~HoldsChildren(s, old)
        THEN [s |-> s, exc |-> "AttributeError"]     \* False.remove
        ELSE IF old.kind /= "none" /\ at = 0
        THEN [s |-> s, exc |-> "ValueError"]         \* list.remove(x): x not in list
        ELSE
          LET s1 == IF old.kind = "none" THEN s
                    ELSE SetChildren(s, old, RemoveAt(oldl, at))
              s2 == [s1 EXCEPT !.par[b] = p]
          IN  IF p.kind = "none" THEN [s |-> s2, exc |-> "none"]
              ELSE IF ~HoldsChildren(s2, p)
              THEN [s |-> s2, exc |-> "TypeError"]   \* self not in False
              ELSE IF IndexOf(ChildrenOf(s2, p), b, 1) /= 0
              THEN [s |-> s2, exc |-> "none"]
              ELSE [s |-> SetChildren(s2, p, AppendChild(ChildrenOf(s2, p), b)),
                    exc |-> "none"]

\* children is False or (self.type == 'file' and children is None)
CannotHold(config) ==
    \/ config.ck = "false"
    \/ (config.type = "file" /\ config.ck \in {"absent", "null"})

RECURSIVE BranchInit(_, _, _), InitChildren(_, _, _, _)
\* Branch.__init__ : the new branch gets the next object number
BranchInit(s, config, parent) ==
    LET b == s.n + 1
        alloc == [s EXCEPT !.n = b,
                           !.par = Append(s.par, NoneRef),
                           !.kids = Append(s.kids, <<>>),
                           !.can = Append(s.can, ~CannotHold(config)),
                           !.cfg = Append(s.cfg,
                               [type |-> config.type, id |-> config.id,
                                ck |-> IF CannotHold(config) THEN config.ck
                                       ELSE "absent"])]
        linked == SetParentOp(alloc, b, parent)
    IN  IF linked.exc /= "none"
        THEN [s |-> s, exc |-> linked.exc]   \* the constructor raised: no object
        ELSE IF CannotHold(config) THEN linked
        ELSE [s |-> InitChildren(linked.s, config.kids, b, 1), exc |-> "none"]

\* for child in children or []: Branch(child, self)
InitChildren(s, cfgs, b, i) ==
    IF i > Len(cfgs) THEN s
    ELSE InitChildren(BranchInit(s, cfgs[i], BranchRef(b)).s, cfgs, b, i + 1)

RECURSIVE DeserializeFrom(_, _, _, _)
\* FS.deserialize : self.children = [Branch(x, self) for x in config]
DeserializeFrom(s, config, i, made) ==
    IF i > Len(config) THEN [s EXCEPT !.root = made]
    ELSE DeserializeFrom(BranchInit(s, config[i], FSRef).s, config, i + 1,
                         Append(made, s.n + 1))

Deserialize(config) == DeserializeFrom(EmptyFS, config, 1, <<>>)

RECURSIVE SerializeBranch(_, _)
\* Branch.serialize(children=True)
SerializeBranch(s, b) ==
    IF s.can[b] /\ Len(s.kids[b]) > 0
    THEN Config(s.cfg[b].type, s.cfg[b].id, "list",
                [i \in 1..Len(s.kids[b]) |-> SerializeBranch(s, s.kids[b][i])])
    ELSE Config(s.cfg[b].type, s.cfg[b].id, s.cfg[b].ck, <<>>)

\* FS.serialize
Serialize(s) == [i \in 1..Len(s.root) |-> SerializeBranch(s, s.root[i])]

RECURSIVE DeleteOp(_, _), DeleteLoop(_, _, _)
\* Branch.delete : unparent, then delete the children while iterating the
\* very list the children remove themselves from
DeleteOp(s, b) ==
    LET un == SetParentOp(s, b, NoneRef)
    IN  IF un.exc /= "none" THEN un
        ELSE IF ~un.s.can[b] THEN un
        ELSE DeleteLoop(un.s, b, 1)

DeleteLoop(s, b, i) ==
    IF i > Len(s.kids[b]) THEN [s |-> s, exc |-> "none"]
    ELSE LET r == DeleteOp(s, s.kids[b][i])
         IN  IF r.exc /= "none" THEN r ELSE DeleteLoop(r.s, b, i + 1)

\* serialized FS configurations the model starts from
InitConfigs ==
    { <<>>,
      << Config("folder", "a", "list",
                << Config("file", "b", "null", <<>>),
                   Config("folder", "b", "false", <<>>) >>) >> }

ParentRefs(s) == {NoneRef, FSRef} \cup {BranchRef(b) : b \in 1..s.n}

FSIdleRes == [op |-> "init", exc |-> "none", b |-> 0, p |-> NoneRef,
              oldpar |-> NoneRef, oldkids |-> <<>>, ops |-> 0]

FSFrame == UNCHANGED <<nc, ncres, pz, pzres, ss, ssres>>

FSInit ==
    /\ fs \in {Deserialize(c) : c \in InitConfigs}
    /\ fsres = FSIdleRes
    /\ nc = Idle /\ ncres = Idle /\ pz = Idle /\ pzres = Idle
    /\ ss = Idle /\ ssres = Idle

\* Branch(config, parent)
NewBranch ==
    /\ fsres.ops < MaxOps
    /\ \E config \in FlatConfigs, p \in ParentRefs(fs) :
         LET r == BranchInit(fs, config, p)
         IN  /\ fs' = r.s
             /\ fsres' = [op |-> "new", exc |-> r.exc, b |-> fs.n + 1, p |-> p,
                          oldpar |-> NoneRef, oldkids |-> <<>>,
                          ops |-> fsres.ops + 1]
    /\ FSFrame

\* branch.parent = p
SetParent ==
    /\ fsres.ops < MaxOps
    /\ \E b \in 1..fs.n, p \in ParentRefs(fs) :
       LET r == SetParentOp(fs, b, p)
           old == fs.par[b]
       IN  /\ fs' = r.s
           /\ fsres' = [op |-> "set_parent", exc |-> r.exc, b |-> b, p |-> p,
                        oldpar |-> old,
                        oldkids |-> IF HoldsChildren(fs, old)
                                    THEN ChildrenOf(fs, old) ELSE <<>>,
                        ops |-> fsres.ops + 1]
    /\ FSFrame

\* branch.delete()
Delete ==
    /\ fsres.ops < MaxOps
    /\ \E b \in 1..fs.n :
       LET r == DeleteOp(fs, b)
       IN  /\ fs' = r.s
           /\ fsres' = [op |-> "delete", exc |-> r.exc, b |-> b, p |-> NoneRef,
                        oldpar |-> fs.par[b], oldkids |-> <<>>,
                        ops |-> fsres.ops + 1]
    /\ FSFrame

FSNext == NewBranch \/ SetParent \/ Delete

SpecFS == FSInit /\ [][FSNext]_vars

(***************************************************************************)
(*             pipe/fs.py : naming conventions (merge, valid)              *)
(*                                                                         *)
(* A tokenized convention is a sequence of items: a literal character, a   *)
(* token {name}, or an optional group (?:...)? of literals and tokens.     *)
(* Strings are sequences of one-character strings.                         *)
(***************************************************************************)
\* longest context value
MaxValLen == 1

Tokens == {"t", "v", "w"}
ValChars == {"x", "\\"}
Values == SeqsUpTo(ValChars, MaxValLen)

Ch(c) == [k |-> "ch", c |-> c, body |-> <<>>]
Tok(n) == [k |-> "tok", c |-> n, body |-> <<>>]
Opt(b) == [k |-> "opt", c |-> "", body |-> b]

\* the 'nc' of the branches of the model
Conventions ==
    { <<Tok("t")>>,
      <<Ch("a"), Opt(<<Ch("_"), Tok("v")>>)>>,
      <<Tok("t"), Opt(<<Ch("_"), Tok("v"), Ch("-"), Tok("w")>>)>>,
      <<Tok("t"), Ch("."), Tok("v")>>,
      <<Tok("t"), Opt(<<Ch("."), Tok("v")>>), Opt(<<Ch("_"), Tok("w")>>)>> }

ParentConventions ==
    { <<Tok("w")>>,
      <<Ch("p"), Opt(<<Ch("-"), Tok("w")>>)>> }

\* Branch.hierarchy : the conventions from the topmost branch down to self
Hierarchies ==
    {<<c>> : c \in Conventions}
      \cup {<<p, c>> : p \in ParentConventions, c \in Conventions}

\* context dictionaries: a value for some of the tokens
Contexts == UNION {[D -> Values] : D \in SUBSET Tokens}

RECURSIVE Escape(_)
\* nc.replace('\\', '\\\\').replace('.', r'\.') ; {token} -> (?P<token>.+?)
Escape(items) ==
    IF items = <<>> THEN <<>>
    ELSE LET h == Head(items)
             r == Escape(Tail(items))
         IN  IF h.k = "ch" /\ h.c = "\\" THEN <<Ch("\\"), Ch("\\")>> \o r
             ELSE IF h.k = "ch" /\ h.c = "." THEN <<Ch("\\"), Ch(".")>> \o r
             ELSE IF h.k = "opt" THEN <<Opt(Escape(h.body))>> \o r
             ELSE <<h>> \o r

RECURSIVE JoinPath(_, _)
\* os.path.join(*result) over the first i branches of the hierarchy
JoinPath(hier, i) ==
    IF i = 1 THEN Escape(hier[1])
    ELSE JoinPath(hier, i - 1) \o <<Ch("/")>> \o Escape(hier[i])

\* Branch.get_convention(parents=...)
GetConvention(hier, parents) ==
    IF parents THEN JoinPath(hier, Len(hier)) ELSE Escape(hier[Len(hier)])

\* the characters of a string as literal items
Literal(v) == [i \in 1..Len(v) |-> Ch(v[i])]

RECURSIVE SubTokens(_, _)
\* NAMED_GROUP_PATTERN.sub(tokens, ...) when every token has a value
SubTokens(items, ctx) ==
    IF items = <<>> THEN <<>>
    ELSE LET h == Head(items)
         IN  (IF h.k = "tok" THEN Literal(ctx[h.c]) ELSE <<h>>)
                \o SubTokens(Tail(items), ctx)

\* merge.optional_tokens : the replacement of one optional group
OptionalTokens(body, ctx) ==
    IF \E i \in 1..Len(body) :
          /\ body[i].k = "tok"
          /\ (body[i].c \notin DOMAIN ctx \/ ctx[body[i].c] = <<>>)
    THEN <<>>
    ELSE SubTokens(body, ctx)

RECURSIVE SubOptional(_, _)
\* OPTIONAL_GROUP_PATTERN.sub(optional_tokens, ...)
SubOptional(items, ctx) ==
    IF items = <<>> THEN <<>>
    ELSE LET h == Head(items)
         IN  (IF h.k = "opt" THEN OptionalTokens(h.body, ctx) ELSE <<h>>)
                \o SubOptional(Tail(items), ctx)

IsBackslash(item) == item.k = "ch" /\ item.c = "\\"
NotBackslash(item) == ~IsBackslash(item)

\* .replace('\\', '')
Unescape(items) == SelectSeq(items, NotBackslash)

\* the characters of a sequence of literals
Text(items) == [i \in 1..Len(items) |-> items[i].c]

\* Branch.merge(context, parents=...)
Merge(hier, parents, ctx) ==
    LET conv == GetConvention(hier, parents)
        result == Unescape(SubOptional(conv, ctx))
        missing == \E i \in 1..Len(result) :
                      result[i].k = "tok" /\ result[i].c \notin DOMAIN ctx
    IN  IF missing THEN [out |-> <<>>, exc |-> "ValueError"]
        ELSE [out |-> Text(SubTokens(result, ctx)), exc |-> "none"]

RECURSIVE Names(_)
\* the token names of a convention in order of appearance
Names(items) ==
    IF items = <<>> THEN <<>>
    ELSE LET h == Head(items)
         IN  (IF h.k = "tok" THEN <<h.c>>
              ELSE IF h.k = "opt" THEN Names(h.body) ELSE <<>>)
                \o Names(Tail(items))

RECURSIVE DictUpdate(_, _)
\* dict.update on the keys: new keys go to the end, in order
DictUpdate(a, b) ==
    IF b = <<>> THEN a
    ELSE DictUpdate(IF Head(b) \in Range(a) THEN a ELSE Append(a, Head(b)),
                    Tail(b))

RECURSIVE OptionalNames(_)
\* the name group of each OPTIONAL_GROUP_PATTERN match: the repeated inner
\* group keeps the last named group of the optional content
OptionalNames(items) ==
    IF items = <<>> THEN <<>>
    ELSE LET h == Head(items)
             n == Names(h.body)
         IN  (IF h.k = "opt" /\ n /= <<>> THEN <<n[Len(n)]>> ELSE <<>>)
                \o OptionalNames(Tail(items))

NotIn(s, t) == LET keep(x) == x \notin Range(t) IN SelectSeq(s, keep)

RECURSIVE GetTokens(_, _, _)
\* Branch.get_tokens(parents=True, optional=...) of branch i of the hierarchy
GetTokens(hier, i, optional) ==
    LET conv == GetConvention(SubSeq(hier, 1, i), FALSE)
        all == DictUpdate(<<>>, Names(conv))
        opt == DictUpdate(<<>>, OptionalNames(conv))
        own == IF optional THEN opt ELSE NotIn(all, opt)
    IN  IF i = 1 THEN own
        ELSE DictUpdate(own, GetTokens(hier, i - 1, optional))

\* re.match(f'^({rule})$', value) for the rule .+? of a tokenized convention
MatchRule(value) == value /= <<>>

RECURSIVE AllMatch(_, _, _)
\* all(re.match(..., context[x]) for x in tokens), evaluated in order
AllMatch(toks, ctx, i) ==
    IF i > Len(toks) THEN [out |-> TRUE, exc |-> "none"]
    ELSE IF toks[i] \notin DOMAIN ctx THEN [out |-> FALSE, exc |-> "KeyError"]
    ELSE IF ~MatchRule(ctx[toks[i]]) THEN [out |-> FALSE, exc |-> "none"]
    ELSE AllMatch(toks, ctx, i + 1)

\* Branch.valid(context)
Valid(hier, ctx) ==
    LET tokens == GetTokens(hier, Len(hier), FALSE)
    IN  IF \A i \in 1..Len(tokens) : tokens[i] \in DOMAIN ctx
        THEN AllMatch(DictUpdate(tokens, GetTokens(hier, Len(hier), TRUE)),
                      ctx, 1)
        ELSE [out |-> FALSE, exc |-> "none"]

NCFrame == UNCHANGED <<fs, fsres, pz, pzres, ss, ssres>>

NCInit ==
    /\ nc \in Hierarchies
    /\ ncres = [op |-> "init", ctx |-> <<>>, parents |-> FALSE, out |-> <<>>,
                exc |-> "none"]
    /\ fs = Idle /\ fsres = Idle /\ pz = Idle /\ pzres = Idle
    /\ ss = Idle /\ ssres = Idle

\* branch.merge(context, parents=...), one call on the branch chosen at Init
DoMerge ==
    /\ ncres.op = "init"
    /\ \E ctx \in Contexts, parents \in BOOLEAN :
         LET r == Merge(nc, parents, ctx)
         IN  ncres' = [op |-> "merge", ctx |-> ctx, parents |-> parents,
                       out |-> r.out, exc |-> r.exc]
    /\ UNCHANGED nc
    /\ NCFrame

\* branch.valid(context)
DoValid ==
    /\ ncres.op = "init"
    /\ \E ctx \in Contexts :
         LET r == Valid(nc, ctx)
         IN  ncres' = [op |-> "valid", ctx |-> ctx, parents |-> TRUE,
                       out |-> r.out, exc |-> r.exc]
    /\ UNCHANGED nc
    /\ NCFrame

NCNext == DoMerge \/ DoValid

SpecNC == NCInit /\ [][NCNext]_vars

(***************************************************************************)
(*                 pipe/fs.py : parse of a merged path                     *)
(*                                                                         *)
(* The regex of a tokenized convention: every escaped character is that    *)
(* character, the first occurrence of a token is the group (?P<t>.+?),     *)
(* later ones are the back-reference (?P=t), (?:...)? is a greedy optional *)
(* group.  re.match tries the alternatives in priority order and returns   *)
(* the first that reaches the end of the string.                           *)
(***************************************************************************)
Ref(n) == [k |-> "ref", c |-> n, body |-> <<>>]

RECURSIVE Unquote(_)
\* the characters a pattern text stands for: \c is the character c
Unquote(items) ==
    IF items = <<>> THEN <<>>
    ELSE LET h == Head(items)
         IN  IF IsBackslash(h) /\ Len(items) > 1
             THEN <<items[2]>> \o Unquote(Tail(Tail(items)))
             ELSE IF h.k = "opt"
             THEN <<Opt(Unquote(h.body))>> \o Unquote(Tail(items))
             ELSE <<h>> \o Unquote(Tail(items))

RECURSIVE Cleanup(_, _)
\* get_convention.cleanup : a recurring token becomes a back-reference
Cleanup(items, seen) ==
    IF items = <<>> THEN <<>>
    ELSE LET h == Head(items)
         IN  IF h.k = "tok"
             THEN <<IF h.c \in seen THEN Ref(h.c) ELSE h>>
                    \o Cleanup(Tail(items), seen \cup {h.c})
             ELSE IF h.k = "opt"
             THEN <<Opt(Cleanup(h.body, seen))>>
                    \o Cleanup(Tail(items), seen \cup Range(Names(h.body)))
             ELSE <<h>> \o Cleanup(Tail(items), seen)

\* the pattern re.match is given
Regex(hier, parents) == Cleanup(Unquote(GetConvention(hier, parents)), {})

StartsWith(s, pos, v) ==
    /\ pos + Len(v) - 1 <= Len(s)
    /\ SubSeq(s, pos, pos + Len(v) - 1) = v

RECURSIVE MatchItems(_, _, _, _)
RECURSIVE MatchLazy(_, _, _, _, _, _)
RECURSIVE MatchEach(_, _, _, _)
\* the ways items match s from pos on, in the order the matcher tries them:
\* the position reached and the groups captured
MatchItems(items, s, pos, env) ==
    IF items = <<>> THEN <<[pos |-> pos, env |-> env]>>
    ELSE LET h == Head(items)
             rest == Tail(items)
         IN  IF h.k = "ch"
             THEN IF pos <= Len(s) /\ s[pos] = h.c
                  THEN MatchItems(rest, s, pos + 1, env)
                  ELSE <<>>
             ELSE IF h.k = "tok"
             THEN MatchLazy(h.c, rest, s, pos, env, 1)
             ELSE IF h.k = "ref"
             THEN IF h.c \in DOMAIN env /\ StartsWith(s, pos, env[h.c])
                  THEN MatchItems(rest, s, pos + Len(env[h.c]), env)
                  ELSE <<>>
             ELSE MatchEach(MatchItems(h.body, s, pos, env), rest, s, 1)
                    \o MatchItems(rest, s, pos, env)

\* (?P<tok>.+?) : the shortest capture first
MatchLazy(tok, rest, s, pos, env, n) ==
    IF pos + n - 1 > Len(s) THEN <<>>
    ELSE MatchItems(rest, s, pos + n,
                    (tok :> SubSeq(s, pos, pos + n - 1)) @@ env)
           \o MatchLazy(tok, rest, s, pos, env, n + 1)

\* the rest of the pattern after each way the optional group matched
MatchEach(rs, rest, s, j) ==
    IF j > Len(rs) THEN <<>>
    ELSE MatchItems(rest, s, rs[j].pos, rs[j].env)
           \o MatchEach(rs, rest, s, j + 1)

\* Branch.parse(name, parents=...) : match.groupdict() without the groups
\* that are None, or no match
Parse(hier, parents, name) ==
    LET AtEnd(r) == r.pos = Len(name) + 1
        rs == SelectSeq(MatchItems(Regex(hier, parents), name, 1, <<>>), AtEnd)
    IN  IF rs = <<>> THEN [found |-> FALSE, groups |-> <<>>]
        ELSE [found |-> TRUE, groups |-> rs[1].env]

\* values of the contexts that are merged and parsed back: they may hold a
\* character the conventions use as a separator
ParseValues == SeqsUpTo(ValChars \cup {"."}, MaxValLen + 1)

ParseContexts == UNION {[D -> ParseValues] : D \in SUBSET Tokens}

\* if branch.valid(context):
\*     branch.parse(branch.merge(context, parents), parents)
DoParse ==
    /\ ncres.op = "init"
    /\ \E ctx \in ParseContexts, parents \in BOOLEAN :
         /\ Valid(nc, ctx) = [out |-> TRUE, exc |-> "none"]
         /\ \E m \in {Merge(nc, parents, ctx)} :
              /\ m.exc = "none"
              /\ \E r \in {Parse(nc, parents, m.out)} :
                   ncres' = [op |-> "parse", ctx |-> ctx, parents |-> parents,
                             out |-> m.out, exc |-> "none",
                             found |-> r.found, groups |-> r.groups]
    /\ UNCHANGED nc
    /\ NCFrame

ParseNext == DoParse

SpecParse == NCInit /\ [][ParseNext]_vars

(***************************************************************************)
(*                     poser.py : Poser pose stacks                        *)
(*                                                                         *)
(* A poser is its class and its stack of input poses: index 0 holds the    *)
(* neutral value, an index >= 1 a pose with a value and the PoserSet pose  *)
(* attribute driving its weight ("" when none).  Values are tuples (one    *)
(* component for enum and scalar attributes, three for 3-component ones),  *)
(* in units of half the default threshold.                                 *)
(***************************************************************************)
\* Poser.threshold = 0.001, in value units
Threshold == 2

\* highest index a pose stack may grow to
MaxIndex == 2

PoserClasses == {"EnumPoser", "NumberPoser", "Number3Poser"}

\* values handed to set_pose_value: zero, below the threshold, at it
ScalarValues == {<<0>>, <<Threshold - 1>>, <<1 - Threshold>>, <<Threshold>>,
                 <<0 - Threshold>>}
TripleValues == {<<0, 0, 0>>, <<Threshold - 1, 1 - Threshold, Threshold - 1>>,
                 <<0, Threshold, 0>>, <<0 - Threshold, Threshold - 1, 0>>}
ValuesOf(cls) == IF cls = "Number3Poser" THEN TripleValues ELSE ScalarValues

\* the default value of the driven attribute (attributeQuery ld=1)
DefaultValue(cls) == IF cls = "Number3Poser" THEN <<0, 0, 0>> ELSE <<0>>

\* the value attribute of a fresh pose: colorIfTrueR of a condition node,
\* input[i] set to 0, color1 of a blendColors node (red)
FreshValue(cls) ==
    IF cls = "Number3Poser" THEN <<1000 * Threshold, 0, 0>> ELSE <<0>>

Pose(v, d) == [val |-> v, drv |-> d]

Abs(x) == IF x < 0 THEN 0 - x ELSE x

\* mutation: any() in place of all()
TrimValueAny(value, thr) ==
    IF thr = 0 THEN TRUE
    ELSE ~(\E i \in 1..Len(value) : Abs(value[i]) < thr)

\* Poser.trim_value(value) is not None
TrimValue(value, thr) ==
    IF thr = 0 THEN TRUE
    ELSE ~(\A i \in 1..Len(value) : Abs(value[i]) < thr)

\* cmds.getAttr(input, mi=1)[-1]
LastIndex(stack) == CHOOSE i \in DOMAIN stack : \A j \in DOMAIN stack : j <= i

Without(stack, i) == [j \in (DOMAIN stack) \ {i} |-> stack[j]]

\* Poser.create / NumberPoser.create : only the neutral pose
NewPoser(cls, attr, rep) ==
    [cls |-> cls, attr |-> attr, rep |-> rep, inset |-> FALSE,
     stack |-> (0 :> Pose(DefaultValue(cls), ""))]

\* add_pose of the three classes: the new index
AddPoseIndex(p) == LastIndex(p.stack) + 1

\* add_pose of the three classes: the poser afterwards
AddPoseOp(p) ==
    [p EXCEPT !.stack = p.stack @@ (AddPoseIndex(p) :> Pose(FreshValue(p.cls), ""))]

\* index arguments: an index or none given
NoIdx == [given |-> FALSE, i |-> 0]
Idx(i) == [given |-> TRUE, i |-> i]

\* Poser.remove_pose(index=None) / NumberPoser.remove_pose(index): the poser
\* afterwards and the exceptions the call can end with (removing an element
\* the multi attribute does not have is left to removeMultiInstance)
RemovePoseOp(p, idx) ==
    IF p.cls = "NumberPoser" /\ ~idx.given
    THEN [p |-> p, exc |-> {"TypeError"}]     \* index is a required argument
    ELSE LET i == IF idx.given THEN idx.i ELSE LastIndex(p.stack)
         IN  IF i < 1 THEN [p |-> p, exc |-> {"ValueError"}]
             ELSE IF i \notin DOMAIN p.stack
             THEN [p |-> p, exc |-> {"none", "RuntimeError"}]
             ELSE [p |-> [p EXCEPT !.stack = Without(p.stack, i)],
                   exc |-> {"none"}]

\* Poser.set_pose_value(index, *value) / NumberPoser.set_pose_value
SetPoseValueOp(p, i, value, thr) ==
    IF p.cls = "NumberPoser"
    THEN IF thr /= 0 /\ Abs(value[1]) < thr
         THEN RemovePoseOp(p, Idx(i))
         ELSE IF i < 0 THEN [p |-> p, exc |-> {"RuntimeError"}]
         ELSE IF i \in DOMAIN p.stack
         THEN [p |-> [p EXCEPT !.stack[i].val = value], exc |-> {"none"}]
         ELSE [p |-> [p EXCEPT !.stack = p.stack @@ (i :> Pose(value, ""))],
               exc |-> {"none"}]
    ELSE IF ~TrimValue(value, thr)
         THEN RemovePoseOp(p, Idx(i))
         ELSE IF i < 1 \/ i \notin DOMAIN p.stack
         THEN [p |-> p, exc |-> {"AttributeError"}]   \* get_pose gave None
         ELSE [p |-> [p EXCEPT !.stack[i].val = value], exc |-> {"none"}]

Thresholds == {0, Threshold}

PZFrame == UNCHANGED <<fs, fsres, nc, ncres, ss, ssres>>

PZRes(op, i, idx, v, exc, before) ==
    [op |-> op, i |-> i, idx |-> idx, val |-> v, exc |-> exc,
     before |-> before]

\* one poser of either class right after cls.create(attr)
PoserInit ==
    /\ \E cls \in PoserClasses, thr \in Thresholds :
          pz = [thr |-> thr, posers |-> <<NewPoser(cls, "attr", "")>>,
                poses |-> <<>>]
    /\ pzres = PZRes("init", 0, NoIdx, <<>>, "none", <<>>)
    /\ fs = Idle /\ fsres = Idle /\ nc = Idle /\ ncres = Idle
    /\ ss = Idle /\ ssres = Idle

\* poser.add_pose()
AddPose ==
    /\ \E i \in 1..Len(pz.posers) :
         /\ AddPoseIndex(pz.posers[i]) <= MaxIndex
         /\ pz' = [pz EXCEPT !.posers[i] = AddPoseOp(pz.posers[i])]
         /\ pzres' = PZRes("add_pose", i, Idx(AddPoseIndex(pz.posers[i])),
                           <<>>, "none", pz.posers[i].stack)
    /\ PZFrame

IndexArgs == {NoIdx} \cup {Idx(i) : i \in (0 - 1)..MaxIndex}

\* poser.remove_pose(index) and poser.remove_pose()
RemovePose ==
    /\ \E i \in 1..Len(pz.posers), idx \in IndexArgs :
         LET r == RemovePoseOp(pz.posers[i], idx)
         IN  \E e \in r.exc :
               /\ pz' = [pz EXCEPT !.posers[i] = r.p]
               /\ pzres' = PZRes("remove_pose", i, idx, <<>>, e,
                                 pz.posers[i].stack)
    /\ PZFrame

\* poser.set_pose_value(index, value)
SetPoseValue ==
    /\ \E i \in 1..Len(pz.posers), k \in (0 - 1)..MaxIndex :
         \E v \in ValuesOf(pz.posers[i].cls) :
           LET r == SetPoseValueOp(pz.posers[i], k, v, pz.thr)
           IN  \E e \in r.exc :
                 /\ pz' = [pz EXCEPT !.posers[i] = r.p]
                 /\ pzres' = PZRes("set_pose_value", i, Idx(k), v, e,
                                   pz.posers[i].stack)
    /\ PZFrame

PoserNext == AddPose \/ RemovePose \/ SetPoseValue

SpecPoser == PoserInit /\ [][PoserNext]_vars

(***************************************************************************)
(*              poser.py : create_poser and PoserSet.add_attr              *)
(*                                                                         *)
(* The scene holds one attribute of every type; an attribute is named by   *)
(* its type and is driven by at most one poser.                            *)
(***************************************************************************)
\* posers a scene may hold
MaxPosers == 2

POSERS_MAP ==
    ("enum" :> "EnumPoser") @@
    ("bool" :> "NumberPoser") @@ ("byte" :> "NumberPoser") @@
    ("short" :> "NumberPoser") @@ ("long" :> "NumberPoser") @@
    ("double" :> "NumberPoser") @@ ("doubleAngle" :> "NumberPoser") @@
    ("doubleLinear" :> "NumberPoser") @@ ("float" :> "NumberPoser") @@
    ("short3" :> "Number3Poser") @@ ("long3" :> "Number3Poser") @@
    ("double3" :> "Number3Poser") @@ ("float3" :> "Number3Poser")

\* attribute types of the scene: the mapped ones and one that is not
AttrTypes == DOMAIN POSERS_MAP \cup {"message"}

\* representant arguments: none, or the attribute of a control
Representants == {"", "ctl.attr"}

EmptyScene(thr) == [thr |-> thr, posers |-> <<>>, poses |-> <<>>]

Driven(s) == {s.posers[i].attr : i \in 1..Len(s.posers)}

\* cls.create(attr) when nargs = 1, cls.create(attr, representant) when 2:
\* NumberPoser.create takes the attribute only
CreateOp(s, cls, attr, rep, nargs) ==
    IF cls = "NumberPoser" /\ nargs > 1
    THEN [s |-> s, exc |-> "TypeError"]
    ELSE [s |-> [s EXCEPT !.posers = Append(@, NewPoser(cls, attr, rep))],
          exc |-> "none"]

\* create_poser(attr, representant=None)
CreatePoserOp(s, attr, rep) ==
    IF attr \notin DOMAIN POSERS_MAP
    THEN [s |-> s, exc |-> "KeyError"]
    ELSE CreateOp(s, POSERS_MAP[attr], attr, rep, 2)

\* PoserSet.add_attr(attr, representant=None)
AddAttrOp(s, attr, rep) ==
    LET r == CreatePoserOp(s, attr, "")
    IN  IF r.exc /= "none" THEN r
        ELSE [s |-> [r.s EXCEPT !.posers[Len(r.s.posers)].inset = TRUE],
              exc |-> "none"]

\* PoserSet.create() in an empty scene
CreateInit ==
    /\ \E thr \in Thresholds : pz = EmptyScene(thr)
    /\ pzres = PZRes("init", 0, NoIdx, <<>>, "none", <<>>)
    /\ fs = Idle /\ fsres = Idle /\ nc = Idle /\ ncres = Idle
    /\ ss = Idle /\ ssres = Idle

\* create_poser(attr) and create_poser(attr, representant)
CreatePoser ==
    /\ Len(pz.posers) < MaxPosers
    /\ \E attr \in AttrTypes \ Driven(pz), rep \in Representants :
         LET r == CreatePoserOp(pz, attr, rep)
         IN  /\ pz' = r.s
             /\ pzres' = PZRes("create_poser", Len(r.s.posers), NoIdx,
                               <<attr, rep>>, r.exc, <<>>)
    /\ PZFrame

\* poser_set.add_attr(attr) and poser_set.add_attr(attr, representant)
AddAttr ==
    /\ Len(pz.posers) < MaxPosers
    /\ \E attr \in AttrTypes \ Driven(pz), rep \in Representants :
         LET r == AddAttrOp(pz, attr, rep)
         IN  /\ pz' = r.s
             /\ pzres' = PZRes("add_attr", Len(r.s.posers), NoIdx,
                               <<attr, rep>>, r.exc, <<>>)
    /\ PZFrame

CreateNext == CreatePoser \/ AddAttr

SpecCreate == CreateInit /\ [][CreateNext]_vars

(***************************************************************************)
(*                 poser.py : PoserSet.set_pose_values                     *)
(***************************************************************************)
\* names of the pose attributes given to PoserSet.add_pose
PoseNames == {"up", "down"}

\* attribute poses a PoserSet may drive: its posers times its pose attributes
MaxCells == 2

\* the attributes of the PoserSets the model starts from
SetAttrs == {<<"enum", "double3">>, <<"float3">>}

\* PoserSet.create(attrs=attrs)
PoserSetCreate(thr, attrs) ==
    LET add[k \in 0..Len(attrs)] ==
          IF k = 0 THEN EmptyScene(thr)
          ELSE AddAttrOp(add[k - 1], attrs[k], "").s
    IN  add[Len(attrs)]

\* an entry of the values dict: poser absent, None, or a value
Absent == [kind |-> "absent", v |-> <<>>]
NoneValue == [kind |-> "none", v |-> <<>>]
Value(v) == [kind |-> "value", v |-> v]
\* values handed to set_pose_values: one below the threshold, two not
SetValuesOf(cls) ==
    IF cls = "Number3Poser"
    THEN TripleValues \ {<<0, 0, 0>>}
    ELSE ScalarValues \ {<<0>>, <<Threshold - 1>>}
ValueArgs(cls) == {Absent, NoneValue} \cup {Value(v) : v \in SetValuesOf(cls)}

\* mutation: the pose is never found
PoseIndexNone(p, name) == 0

\* PoserSet.get_pose, for one poser: the index of the first pose after the
\* first stack entry whose weight the pose attribute drives, 0 for None
PoseIndex(p, name) ==
    LET js == {j \in (DOMAIN p.stack) \ {0} : p.stack[j].drv = name}
    IN  IF js = {} THEN 0
        ELSE CHOOSE j \in js : \A k \in js : j <= k

\* the body of the loop of PoserSet.set_pose_values for one poser
SetPoserValue(p, name, arg, thr) ==
    LET i == PoseIndex(p, name)
    IN  IF arg.kind /= "value" \/ ~TrimValue(arg.v, thr)
        THEN IF i /= 0 THEN CHOOSE q \in {RemovePoseOp(p, Idx(i)).p} : TRUE
             ELSE p
        ELSE LET q == IF i = 0
                      THEN [AddPoseOp(p) EXCEPT
                              !.stack[AddPoseIndex(p)].drv = name]
                      ELSE p
                 k == IF i = 0 THEN AddPoseIndex(p) ELSE i
             IN  CHOOSE r \in {SetPoseValueOp(q, k, arg.v, thr).p} : TRUE

\* does the loop body call add_pose on this poser
AddsPose(p, name, arg, thr) ==
    /\ arg.kind = "value" /\ TrimValue(arg.v, thr)
    /\ PoseIndex(p, name) = 0

\* PoserSet.set_pose_values(index, values)
SetPoseValuesOp(s, index, values) ==
    IF index >= Len(s.poses)
    THEN [s |-> s, exc |-> "IndexError"]
    ELSE [s |-> [s EXCEPT !.posers =
                   [i \in 1..Len(s.posers) |->
                      IF s.posers[i].inset
                      THEN SetPoserValue(s.posers[i], s.poses[index + 1],
                                         values[i], s.thr)
                      ELSE s.posers[i]]],
          exc |-> "none"]

\* a PoserSet created with its attributes, no pose attribute yet
PoserSetInit ==
    /\ \E thr \in Thresholds, attrs \in SetAttrs :
          pz = PoserSetCreate(thr, attrs)
    /\ pzres = PZRes("init", 0, NoIdx, <<>>, "none", <<>>)
    /\ fs = Idle /\ fsres = Idle /\ nc = Idle /\ ncres = Idle
    /\ ss = Idle /\ ssres = Idle

\* poser_set.add_pose(name)
SetAddPose ==
    /\ Len(pz.posers) * (Len(pz.poses) + 1) <= MaxCells
    /\ \E name \in PoseNames \ Range(pz.poses) :
         /\ pz' = [pz EXCEPT !.poses = Append(@, name)]
         /\ pzres' = PZRes("add_pose", 0, NoIdx, <<name>>, "none", <<>>)
    /\ PZFrame

\* poser_set.set_pose_values(index, values)
SetPoseValues ==
    /\ \E index \in 0..Len(pz.poses) :
       \E values \in [1..Len(pz.posers) -> UNION {ValueArgs(c) : c \in PoserClasses}] :
         /\ \A i \in 1..Len(pz.posers) :
              /\ values[i] \in ValueArgs(pz.posers[i].cls)
              /\ (index < Len(pz.poses)
                  /\ AddsPose(pz.posers[i], pz.poses[index + 1], values[i], pz.thr))
                 => AddPoseIndex(pz.posers[i]) <= MaxIndex
         /\ LET r == SetPoseValuesOp(pz, index, values)
            IN  /\ pz' = r.s
                /\ pzres' = PZRes("set_pose_values", 0, Idx(index), values,
                                  r.exc, pz.posers)
    /\ PZFrame

PoserSetNext == SetAddPose \/ SetPoseValues

SpecPoserSet == PoserSetInit /\ [][PoserSetNext]_vars

(***************************************************************************)
(*                 ma_rig/spaceswitch.py : SpaceSwitch.add                 *)
(*                                                                         *)
(* A SpaceSwitch is a transform whose channels (scale, rotate, translate   *)
(* per axis) are each unconnected, driven by one of its constraints, or    *)
(* driven by some other node.  A constraint has a type and targets.        *)
(***************************************************************************)
\* calls of add in one behaviour
MaxAdds == 2

Axes == {"x", "y"}

\* first characters of the channel codes given to add
Kinds == {"s", "r", "t", "o", "p", "a"}

Codes == Kinds \X Axes

\* channels of the transform: S[1:] + R[1:] + T[1:]
Channels == {"s", "r", "t"} \X Axes

TargetNames == {"A", "B"}

\* drivers of a channel: get_cns yields None, False or a constraint
Unconnected == 0
OtherSource == 0 - 1

CNS_MAP ==
    ("aim" :> {"a"}) @@ ("orient" :> {"o"}) @@ ("parent" :> {"r", "t"}) @@
    ("point" :> {"p"}) @@ ("scale" :> {"s"})

REV_CNS_MAP ==
    ("a" :> "r") @@ ("o" :> "r") @@ ("p" :> "t") @@ ("r" :> "r") @@
    ("s" :> "s") @@ ("t" :> "t")

\* SpaceSwitch.get_cns_dict: the keys of the dictionary
GetCns(s, chans) == {s.drv[c] : c \in chans}

\* mutation: _verify accepts every driver
VerifyNothing(s, type, chans) == TRUE

\* SpaceSwitch._verify: no channel is driven by another source or by a
\* constraint of another type
Verify(s, type, chans) ==
    \A k \in GetCns(s, chans) :
       /\ k /= OtherSource
       /\ k /= Unconnected => s.cns[k].type = type

\* SpaceSwitch._split and split(): the constraints from k on that also drive
\* channels not asked for are duplicated, the duplicate taking the channels
\* asked for
RECURSIVE Split(_, _, _, _)
Split(s, chans, k, n) ==
    IF k > n THEN s
    ELSE LET all == {c \in Channels : s.drv[c] = k}
             affected == all \cap chans
         IN  IF affected = {} \/ all \subseteq affected
             THEN Split(s, chans, k + 1, n)
             ELSE Split([drv |-> [c \in Channels |->
                                    IF c \in affected THEN Len(s.cns) + 1
                                    ELSE s.drv[c]],
                         cns |-> Append(s.cns, s.cns[k])],
                        chans, k + 1, n)

\* SpaceSwitch._create: one new constraint for the unconstrained channels
Create(s, type, chans) ==
    LET free == {c \in chans : s.drv[c] = Unconnected}
    IN  IF free = {} THEN s
        ELSE [drv |-> [c \in Channels |->
                         IF c \in free THEN Len(s.cns) + 1 ELSE s.drv[c]],
              cns |-> Append(s.cns, [type |-> type, targets |-> {}])]

\* the loop over the constraints of the typed add methods
AddTarget(s, chans, target) ==
    [s EXCEPT !.cns = [k \in 1..Len(s.cns) |->
                         IF k \in GetCns(s, chans)
                         THEN [s.cns[k] EXCEPT !.targets = @ \cup {target}]
                         ELSE s.cns[k]]]

\* add_a, add_o, add_p, add_rt, add_s
AddTyped(s, type, chans, target) ==
    IF ~Verify(s, type, chans) THEN [s |-> s, exc |-> "TypeError"]
    ELSE [s |-> AddTarget(Create(Split(s, chans, 1, Len(s.cns)), type, chans),
                          chans, target),
          exc |-> "none"]

\* the first character the orient branch of add filters on
OrientFilter == "p"

Call(type, chans) == [type |-> type, chans |-> chans]

\* the typed calls of SpaceSwitch.add, in its order, with their channels
AddCalls(codes) ==
    << Call("scale", {<<"s", c[2]>> : c \in {d \in codes : d[1] = "s"}}),
       Call("parent", {c \in codes : c[1] \in {"r", "t"}}),
       Call("aim", {<<"r", c[2]>> : c \in {d \in codes : d[1] = "a"}}),
       Call("orient",
            {<<"r", c[2]>> : c \in {d \in codes : d[1] = OrientFilter}}),
       Call("point", {<<"t", c[2]>> : c \in {d \in codes : d[1] = "p"}}) >>

\* SpaceSwitch.add(targets, channels): the calls made until one raises
RECURSIVE AddOp(_, _, _, _, _)
AddOp(s, target, calls, i, made) ==
    IF i > Len(calls) THEN [s |-> s, exc |-> "none", calls |-> made]
    ELSE IF calls[i].chans = {} THEN AddOp(s, target, calls, i + 1, made)
    ELSE LET r == AddTyped(s, calls[i].type, calls[i].chans, target)
         IN  IF r.exc /= "none"
             THEN [s |-> s, exc |-> r.exc, calls |-> Append(made, calls[i])]
             ELSE AddOp(r.s, target, calls, i + 1, Append(made, calls[i]))

\* channel arguments: one code, or a code on each axis
ChannelArgs ==
    {{c} : c \in Codes} \cup
    {{c, d} : c \in Kinds \X {"x"}, d \in Kinds \X {"y"}}

SSFrame == UNCHANGED <<fs, fsres, nc, ncres, pz, pzres>>

\* a new SpaceSwitch, one of whose channels may be driven by another node
SSInit ==
    /\ \E other \in SUBSET {<<"t", "y">>} :
         ss = [drv |-> [c \in Channels |->
                          IF c \in other THEN OtherSource ELSE Unconnected],
               cns |-> <<>>]
    /\ ssres = [op |-> "init", target |-> "", codes |-> {}, exc |-> "none",
                calls |-> <<>>, before |-> <<>>, n |-> 0]
    /\ fs = Idle /\ fsres = Idle /\ nc = Idle /\ ncres = Idle
    /\ pz = Idle /\ pzres = Idle

\* space_switch.add(target, channels)
Add ==
    /\ ssres.n < MaxAdds
    /\ \E target \in TargetNames, codes \in ChannelArgs :
         \E r \in {AddOp(ss, target, AddCalls(codes), 1, <<>>)} :
             /\ ss' = r.s
             /\ ssres' = [op |-> "add", target |-> target, codes |-> codes,
                          exc |-> r.exc, calls |-> r.calls, before |-> ss,
                          n |-> ssres.n + 1]
    /\ SSFrame

SSNext == Add

SpecSS == SSInit /\ [][SSNext]_vars

(***************************************************************************)
(*        ma_rig/spaceswitch.py : the typed add methods called directly    *)
(*                                                                         *)
(* Each method is given a target and some of the channels it drives by     *)
(* default (add_a, add_o: rotate; add_p: translate; add_rt: rotate and     *)
(* translate; add_s: scale).                                               *)
(***************************************************************************)
ChannelsOf(attrs) == (SUBSET (attrs \X Axes)) \ {{}}

\* what a typed call leaves behind: its arguments, outcome and the scene
\* it started from
TypedRes(op, type, target, chans, exc) ==
    [op |-> op, target |-> target, codes |-> chans, exc |-> exc,
     calls |-> <<Call(type, chans)>>, before |-> ss, n |-> ssres.n + 1]

\* space_switch.add_a(target, channels)
AddA ==
    /\ ssres.n < MaxAdds
    /\ \E target \in TargetNames, chans \in ChannelsOf({"r"}) :
         \E r \in {AddTyped(ss, "aim", chans, target)} :
             /\ ss' = r.s
             /\ ssres' = TypedRes("add_a", "aim", target, chans, r.exc)
    /\ SSFrame

\* space_switch.add_o(target, channels)
AddO ==
    /\ ssres.n < MaxAdds
    /\ \E target \in TargetNames, chans \in ChannelsOf({"r"}) :
         \E r \in {AddTyped(ss, "orient", chans, target)} :
             /\ ss' = r.s
             /\ ssres' = TypedRes("add_o", "orient", target, chans, r.exc)
    /\ SSFrame

\* space_switch.add_p(target, channels)
AddP ==
    /\ ssres.n < MaxAdds
    /\ \E target \in TargetNames, chans \in ChannelsOf({"t"}) :
         \E r \in {AddTyped(ss, "point", chans, target)} :
             /\ ss' = r.s
             /\ ssres' = TypedRes("add_p", "point", target, chans, r.exc)
    /\ SSFrame

\* space_switch.add_rt(target, channels)
AddRT ==
    /\ ssres.n < MaxAdds
    /\ \E target \in TargetNames, chans \in ChannelsOf({"r", "t"}) :
         \E r \in {AddTyped(ss, "parent", chans, target)} :
             /\ ss' = r.s
             /\ ssres' = TypedRes("add_rt", "parent", target, chans, r.exc)
    /\ SSFrame

\* space_switch.add_s(target, channels)
AddS ==
    /\ ssres.n < MaxAdds
    /\ \E target \in TargetNames, chans \in ChannelsOf({"s"}) :
         \E r \in {AddTyped(ss, "scale", chans, target)} :
             /\ ss' = r.s
             /\ ssres' = TypedRes("add_s", "scale", target, chans, r.exc)
    /\ SSFrame

TypedNext == AddA \/ AddO \/ AddP \/ AddRT \/ AddS

SpecTyped == SSInit /\ [][TypedNext]_vars

(***************************************************************************)
(* C1: serializing an FS, deserializing the result and serializing again   *)
(* gives the first serialization back (same branches, config values,       *)
(* nesting and child order), for every FS reached from a deserialized one  *)
(* by branch creations, re-parentings and deletions.                       *)
(***************************************************************************)
C1_RoundTrip == Serialize(Deserialize(Serialize(fs))) = Serialize(fs)

\* a branch was deleted and the FS still holds a branch with two nested ones
C1_Witness ==
    /\ fsres.op = "delete" /\ fsres.exc = "none"
    /\ \E i \in 1..Len(fs.root) : Len(fs.kids[fs.root[i]]) >= 2

(***************************************************************************)
(* C4: a branch whose children attribute is False never has nested         *)
(* branches: no branch's parent is such a branch, and a set_parent onto it *)
(* fails leaving the moved branch's previous parent and that parent's      *)
(* children list unchanged.                                                *)
(***************************************************************************)
C4_LeafHasNoChild ==
    /\ \A b \in 1..fs.n :
          fs.par[b].kind = "branch" => fs.can[fs.par[b].id]
    /\ (fsres.op = "set_parent" /\ ~HoldsChildren(fs, fsres.p)
                                /\ fsres.p.kind = "branch")
          => /\ fsres.exc /= "none"
             /\ fs.par[fsres.b] = fsres.oldpar
             /\ (HoldsChildren(fs, fsres.oldpar)
                   => ChildrenOf(fs, fsres.oldpar) = fsres.oldkids)

(***************************************************************************)
(* C2: merge(context) raises ValueError exactly when the context lacks a   *)
(* value for a token of the convention that is outside every optional      *)
(* group; an optional group with a token that is missing or empty is       *)
(* dropped, and one whose tokens all have non-empty values is emitted with *)
(* those values.                                                           *)
(***************************************************************************)
RECURSIVE RequiredNames(_)
\* the tokens of a convention outside its optional groups
RequiredNames(items) ==
    IF items = <<>> THEN {}
    ELSE (IF Head(items).k = "tok" THEN {Head(items).c} ELSE {})
            \cup RequiredNames(Tail(items))

\* the source conventions merge(parents=...) works on
MergedBranches(hier, parents) ==
    IF parents THEN hier ELSE <<hier[Len(hier)]>>

RECURSIVE ClaimedText(_, _)
\* the name the claim describes: literals and values as given, an optional
\* group in full or not at all
ClaimedText(items, ctx) ==
    IF items = <<>> THEN <<>>
    ELSE LET h == Head(items)
             rest == ClaimedText(Tail(items), ctx)
         IN  IF h.k = "ch" THEN <<h.c>> \o rest
             ELSE IF h.k = "tok" THEN ctx[h.c] \o rest
             ELSE IF \A n \in Range(Names(h.body)) :
                        n \in DOMAIN ctx /\ ctx[n] /= <<>>
                  THEN ClaimedText(h.body, ctx) \o rest
                  ELSE rest

RECURSIVE ClaimedPath(_, _, _)
ClaimedPath(hs, ctx, i) ==
    IF i = 1 THEN ClaimedText(hs[1], ctx)
    ELSE ClaimedPath(hs, ctx, i - 1) \o <<"/">> \o ClaimedText(hs[i], ctx)

MergeLacksRequired ==
    \E i \in 1..Len(MergedBranches(nc, ncres.parents)) :
       \E n \in RequiredNames(MergedBranches(nc, ncres.parents)[i]) :
          n \notin DOMAIN ncres.ctx

\* the first half of C2 alone: ValueError iff a required token is missing
C2_RaisesIffRequiredMissing ==
    ncres.op = "merge" => ((ncres.exc = "ValueError") <=> MergeLacksRequired)

C2_Merge ==
    ncres.op = "merge" =>
       /\ (ncres.exc = "ValueError") <=> MergeLacksRequired
       /\ ncres.exc = "none" =>
            ncres.out = ClaimedPath(MergedBranches(nc, ncres.parents),
                                    ncres.ctx,
                                    Len(MergedBranches(nc, ncres.parents)))

(***************************************************************************)
(* C3: valid(context) returns a boolean and never raises: True when every  *)
(* supplied token meets its rule and every non-optional token of the       *)
(* hierarchy is present, False otherwise; a context with all required      *)
(* tokens valid that omits an optional token gives True.                   *)
(***************************************************************************)
HierarchyRequired == UNION {RequiredNames(nc[i]) : i \in 1..Len(nc)}
HierarchyNames == UNION {Range(Names(nc[i])) : i \in 1..Len(nc)}

C3_Valid ==
    ncres.op = "valid" =>
       /\ ncres.exc = "none"
       /\ ncres.out <=>
            /\ HierarchyRequired \subseteq DOMAIN ncres.ctx
            /\ \A n \in DOMAIN ncres.ctx \cap HierarchyNames :
                  MatchRule(ncres.ctx[n])

(***************************************************************************)
(* C5: the neutral pose (index 0) is never removed: remove_pose with an    *)
(* index < 1, remove_pose with no index when only the neutral pose exists  *)
(* and set_pose_value(0, v) with v below the threshold all raise           *)
(* ValueError and remove nothing, so index 0 stays in the stack after any  *)
(* sequence of add_pose, remove_pose and set_pose_value calls.             *)
(***************************************************************************)
\* the value is below the threshold in the sense of the documentation
BelowThreshold(cls, v, thr) ==
    /\ thr /= 0
    /\ \A c \in 1..Len(v) : Abs(v[c]) < thr

\* the last call is one of the three attempts on the neutral pose
NeutralAttempt ==
    \/ pzres.op = "remove_pose" /\ pzres.idx.given /\ pzres.idx.i < 1
    \/ pzres.op = "remove_pose" /\ ~pzres.idx.given
                                /\ DOMAIN pzres.before = {0}
    \/ pzres.op = "set_pose_value" /\ pzres.idx.i = 0
         /\ BelowThreshold(pz.posers[pzres.i].cls, pzres.val, pz.thr)

NeutralPresent == \A i \in 1..Len(pz.posers) : 0 \in DOMAIN pz.posers[i].stack

C5_AlwaysValueError ==
    /\ NeutralPresent
    /\ NeutralAttempt =>
         (pzres.exc = "ValueError" /\ pz.posers[pzres.i].stack = pzres.before)

\* what holds of the three attempts: each raises and removes nothing, with
\* TypeError from NumberPoser.remove_pose called without its index
NeutralKept ==
    /\ NeutralPresent
    /\ NeutralAttempt =>
         /\ pz.posers[pzres.i].stack = pzres.before
         /\ pzres.exc =
              (IF pz.posers[pzres.i].cls = "NumberPoser" /\ ~pzres.idx.given
               THEN "TypeError" ELSE "ValueError")

(***************************************************************************)
(* C6: setting an existing pose (index >= 1) to a value below the          *)
(* threshold removes the pose instead of storing the value (scalar: the    *)
(* absolute value is below; three components: every component is); any     *)
(* other value is stored and the pose kept; with threshold 0 nothing is    *)
(* pruned.                                                                 *)
(***************************************************************************)
C6_PruneBelowThreshold ==
    (/\ pzres.op = "set_pose_value"
     /\ pzres.idx.i >= 1
     /\ pzres.idx.i \in DOMAIN pzres.before)
    => LET p == pz.posers[pzres.i]
       IN  IF BelowThreshold(p.cls, pzres.val, pz.thr)
           THEN pzres.idx.i \notin DOMAIN p.stack
           ELSE /\ pzres.exc = "none"
                /\ pzres.idx.i \in DOMAIN p.stack
                /\ p.stack[pzres.idx.i].val = pzres.val
                /\ DOMAIN p.stack = DOMAIN pzres.before

\* a three-component value with one component at the threshold and the
\* others below it was stored
C6_Witness ==
    /\ pzres.op = "set_pose_value" /\ pzres.idx.i >= 1
    /\ pzres.idx.i \in DOMAIN pzres.before
    /\ pz.thr /= 0
    /\ pzres.val = <<0, Threshold, 0>>
    /\ pz.posers[pzres.i].stack[pzres.idx.i].val = pzres.val

(***************************************************************************)
(* C7: create_poser(attr) succeeds for an attribute of every type listed   *)
(* in POSERS_MAP and returns a poser of the subclass mapped to the type    *)
(* (EnumPoser for enum, NumberPoser for the scalar numeric types,          *)
(* Number3Poser for the 3-component types) whose index-0 pose holds the    *)
(* attribute's default value.                                              *)
(***************************************************************************)
ClaimedClass(type) ==
    IF type = "enum" THEN "EnumPoser"
    ELSE IF type \in {"short3", "long3", "double3", "float3"}
    THEN "Number3Poser"
    ELSE "NumberPoser"

C7_CreatePoser ==
    (pzres.op = "create_poser" /\ pzres.val[1] \in DOMAIN POSERS_MAP)
    => /\ pzres.exc = "none"
       /\ LET p == pz.posers[pzres.i]
          IN  /\ p.attr = pzres.val[1]
              /\ p.cls = ClaimedClass(pzres.val[1])
              /\ 0 \in DOMAIN p.stack
              /\ p.stack[0].val = DefaultValue(p.cls)

(***************************************************************************)
(* C8: PoserSet.add_attr(attr, representant=r) creates a poser for attr    *)
(* that is associated with the PoserSet and whose representant is r; with  *)
(* representant omitted the poser has no representant.                     *)
(***************************************************************************)
C8_AddAttr ==
    (pzres.op = "add_attr" /\ pzres.val[1] \in DOMAIN POSERS_MAP)
    => /\ pzres.exc = "none"
       /\ LET p == pz.posers[pzres.i]
          IN  /\ p.attr = pzres.val[1]
              /\ p.inset
              /\ p.rep = pzres.val[2]

(***************************************************************************)
(* C9: after PoserSet.set_pose_values(index, values), every poser of the   *)
(* set has a pose driven by the set's pose attribute exactly when values   *)
(* gives it a value that is not below the threshold; that pose stores the  *)
(* given value and there is at most one of them; a poser absent from       *)
(* values, or given None or a negligible value, has none.                  *)
(***************************************************************************)
\* the poses of a poser whose weight a pose attribute drives
DrivenBy(p, name) == {j \in DOMAIN p.stack : p.stack[j].drv = name}

C9_SetPoseValues ==
    (pzres.op = "set_pose_values" /\ pzres.exc = "none")
    => \A i \in 1..Len(pz.posers) :
         pz.posers[i].inset =>
           LET p == pz.posers[i]
               arg == pzres.val[i]
               js == DrivenBy(p, pz.poses[pzres.idx.i + 1])
               given == /\ arg.kind = "value"
                        /\ ~BelowThreshold(p.cls, arg.v, pz.thr)
           IN  /\ (js /= {}) <=> given
               /\ Cardinality(js) <= 1
               /\ \A j \in js : p.stack[j].val = arg.v

\* one call removed the pose of one poser and gave the pose of the other a
\* new value
C9_Witness ==
    /\ pzres.op = "set_pose_values" /\ pzres.exc = "none"
    /\ \E i, k \in 1..Len(pz.posers) :
         LET name == pz.poses[pzres.idx.i + 1]
         IN  /\ DrivenBy(pzres.before[i], name) /= {}
             /\ DrivenBy(pz.posers[i], name) = {}
             /\ \E j \in DrivenBy(pz.posers[k], name) :
                  /\ j \in DrivenBy(pzres.before[k], name)
                  /\ pzres.before[k].stack[j].val /= pz.posers[k].stack[j].val

(***************************************************************************)
(* C10: SpaceSwitch.add dispatches each input channel to the constraint    *)
(* type named by its first character and to no other: 's' to a scale       *)
(* constraint, 'r'/'t' to a parent constraint, 'o' to an orient constraint *)
(* on the matching rotate axis, 'p' to a point constraint on the matching  *)
(* translate axis, 'a' to an aim constraint on the matching rotate axis.   *)
(***************************************************************************)
ClaimedType(kind) == CHOOSE type \in DOMAIN CNS_MAP : kind \in CNS_MAP[type]

ClaimedChannel(code) == <<REV_CNS_MAP[code[1]], code[2]>>

C10_Dispatch ==
    (ssres.op = "add" /\ ssres.exc = "none")
    => /\ \A c \in ssres.codes :
            /\ \E i \in 1..Len(ssres.calls) :
                 /\ ssres.calls[i].type = ClaimedType(c[1])
                 /\ ClaimedChannel(c) \in ssres.calls[i].chans
            /\ ss.drv[ClaimedChannel(c)] > 0
            /\ ss.cns[ss.drv[ClaimedChannel(c)]].type = ClaimedType(c[1])
            /\ ssres.target \in ss.cns[ss.drv[ClaimedChannel(c)]].targets
       /\ \A i \in 1..Len(ssres.calls) :
            \A ch \in ssres.calls[i].chans :
              \E c \in ssres.codes :
                 /\ ClaimedType(c[1]) = ssres.calls[i].type
                 /\ ClaimedChannel(c) = ch

(***************************************************************************)
(* C11: each typed add method (add_a, add_o, add_p, add_rt, add_s) raises  *)
(* TypeError when a requested channel is driven by a constraint of another *)
(* type or by a node that is no constraint, and then no constraint has     *)
(* been created, split or given a target: the scene is unchanged.          *)
(***************************************************************************)
\* the channel is driven by something the call may not add targets to
DrivenOtherwise(s, type, ch) ==
    \/ s.drv[ch] = OtherSource
    \/ s.drv[ch] > 0 /\ s.cns[s.drv[ch]].type /= type

C11_TypeErrorKeepsScene ==
    (/\ ssres.op \in {"add_a", "add_o", "add_p", "add_rt", "add_s"}
     /\ \E ch \in ssres.codes :
          DrivenOtherwise(ssres.before, ssres.calls[1].type, ch))
    => /\ ssres.exc = "TypeError"
       /\ ss = ssres.before

\* a call was refused for one channel, driven by a constraint of another
\* type, while another of its channels was free
C11_Witness ==
    /\ ssres.op \in {"add_a", "add_o", "add_p", "add_rt", "add_s"}
    /\ ssres.exc = "TypeError"
    /\ \E ch \in ssres.codes : ssres.before.drv[ch] > 0
    /\ \E ch \in ssres.codes : ssres.before.drv[ch] = Unconnected

(***************************************************************************)
(* C12: path templating and parsing are inverse: for every branch with a   *)
(* tokenized convention and every context accepted by valid(),             *)
(* parse(merge(context)), with the same parents argument, is not None and  *)
(* returns for every token of the convention the value the context gave.   *)
(***************************************************************************)
\* the tokens of the convention that was merged and parsed
ParsedNames == Range(Names(GetConvention(nc, ncres.parents)))

RECURSIVE Literals(_)
\* the literal characters of a convention
Literals(items) ==
    IF items = <<>> THEN {}
    ELSE LET h == Head(items)
         IN  (IF h.k = "ch" THEN {h.c}
              ELSE IF h.k = "opt" THEN Literals(h.body) ELSE {})
                \cup Literals(Tail(items))

\* no value of the context holds a backslash or a literal character of the
\* convention
PlainContext ==
    \A t \in DOMAIN ncres.ctx :
       Range(ncres.ctx[t]) \cap
         ({"\\"} \cup Literals(Unquote(GetConvention(nc, ncres.parents)))) = {}

GivesBack ==
    /\ ncres.found
    /\ \A t \in ParsedNames :
          IF t \in DOMAIN ncres.ctx
          THEN t \in DOMAIN ncres.groups /\ ncres.groups[t] = ncres.ctx[t]
          ELSE t \notin DOMAIN ncres.groups

C12_ParseInvertsMerge == ncres.op = "parse" => GivesBack

\* what holds: the round trip of a context of plain values
PlainRoundTrip == (ncres.op = "parse" /\ PlainContext) => GivesBack

====
